---- MODULE Spec2Model ----
(***************************************************************************)
(* Process supervision of the Q Developer CLI (server/q-cli.js):           *)
(* spawnQ, its stdout/stderr/close/error handlers, and abortQSession,      *)
(* over the shared registry activeQProcesses.                              *)
(*                                                                         *)
(* Text is a sequence of tokens; the string it stands for is the           *)
(* concatenation of the tokens.  A child process handle is named by the    *)
(* number of the spawnQ call (run) that created it.                        *)
(***************************************************************************)
EXTENDS Integers, Sequences, FiniteSets, TLC

\* ------------------------------------------------------------------ bounds
MaxRuns == 2
MaxChunks == 2
MaxSharedChunks == 1
MaxTime == 1
MaxReqs == 3
MaxCalls == 2
MaxSessions == 2

Runs == 1..MaxRuns

\* ------------------------------------------------------------------ inputs
NoSid == ""
SessionIds == {"s1", "s2"}
Chunks == {"a", "b"}
WorkingDir == <<"/proj">>

Png == [data |-> [prefix |-> "data:", mime |-> <<"image", "png">>, sep |-> ";base64,", payload |-> "iVBOR"]]
NoSubtype == [data |-> [prefix |-> "data:", mime |-> <<"image">>, sep |-> ";base64,", payload |-> "AAAA"]]
NoPrefix == [data |-> [prefix |-> "", mime |-> <<"image", "png">>, sep |-> ";base64,", payload |-> "iVBOR"]]
\* an attachment object that has no data property
NoData == [name |-> "photo.png"]

Sinks == {"OPEN", "null"}

\* inputs of the specifications of the supervision
SpecSids == SessionIds \cup {NoSid}
SpecCommands == {<<"h", "i">>}
SpecImages == {<<>>, <<Png>>}
SpecSinks == {"OPEN"}
SpecChunks == {"a"}

\* inputs of the argument/staging specification
Commands == {<<>>, <<" ">>, <<"h", "i">>, <<"--message">>}
ImageLists == {<<>>, <<Png>>, <<NoPrefix>>, <<Png, NoSubtype>>, <<NoPrefix, Png>>, <<Png, NoPrefix>>,
               <<NoData, Png>>, <<Png, NoData>>}

VARIABLES
  now,               \* Date.now()
  activeQProcesses,  \* the registry: session id -> handle (run)
  pc,                \* position of each spawnQ call / its child
  sessionId,         \* capturedSessionId of each run
  ws,                \* the sink of each run: "null", "OPEN", "CLOSED"
  command, images,   \* the inputs of each run
  args,              \* the argument vector of each run
  tempDir,           \* <<>> is null
  tempImagePaths,
  imgIndex,          \* index of the image whose writeFile is awaited
  events,            \* what was sent through ws.send, in order
  outputBuffer, errorBuffer,
  exitCode,          \* the code the close handler gets
  launchError,       \* the child's 'error' event was handled
  killed,            \* qProcess.killed
  signals,           \* signals delivered to the child
  timer,             \* the force-kill timeout of abortQSession
  result,            \* the promise spawnQ returns
  abortCall,         \* the last abortQSession call and its return value
  chunksRead,        \* number of data events so far
  dirs, files,       \* the filesystem: the directories and the files that exist
  cleanup,           \* the fs.rmdir of each run's tempDir: "none", "pending", "done", "failed"
  stagingError,      \* the error the catch of the image staging got: "none", "EIO", "TypeError"
  mcpFile,           \* ~/.aws/amazonq/mcp.json: mcpServers, server name -> its configuration
  req,               \* the requests to the MCP router and their position
  projectConfig,     \* ~/.q-developer/project-config.json
  sessionMeta,       \* the <id>.json files below ~/.q-developer/sessions, by session id
  messageLog,        \* the <id>_messages.jsonl files, by session id
  sessionsCreated,   \* number of createSession calls so far
  listing,           \* what the last getProjects call returned
  addCall            \* the addMessageToSession calls and their position

vars == <<now, activeQProcesses, pc, sessionId, ws, command, images, args, tempDir,
          tempImagePaths, imgIndex, events, outputBuffer, errorBuffer, exitCode,
          launchError, killed, signals, timer, result, abortCall, chunksRead,
          dirs, files, cleanup, stagingError,
          mcpFile, req, projectConfig, sessionMeta, messageLog, sessionsCreated, listing,
          addCall>>

\* the state of spawnQ and abortQSession, of the MCP router, of projects.js
qVars == <<now, activeQProcesses, pc, sessionId, ws, command, images, args, tempDir,
           tempImagePaths, imgIndex, events, outputBuffer, errorBuffer, exitCode,
           launchError, killed, signals, timer, result, abortCall, chunksRead,
           dirs, files, cleanup, stagingError>>
mcpVars == <<mcpFile, req>>
projVars == <<projectConfig, sessionMeta, messageLog, sessionsCreated, listing, addCall>>

\* ------------------------------------------------------------------ values
Code(n) == [null |-> FALSE, n |-> n]
NullCode == [null |-> TRUE, n |-> 0]
ENOENT == Code(-2)
ExitCodes == {Code(0), Code(1), NullCode}

Pending == [state |-> "pending"]
NoCall == [called |-> FALSE, sid |-> NoSid, ret |-> FALSE]

\* ------------------------------------------------------------------ text
IsSpace(t) == t \in {" ", "\n", "\t"}

RECURSIVE TrimStart(_)
TrimStart(s) == IF s # <<>> /\ IsSpace(Head(s)) THEN TrimStart(Tail(s)) ELSE s

RECURSIVE TrimEnd(_)
TrimEnd(s) == IF s # <<>> /\ IsSpace(s[Len(s)]) THEN TrimEnd(SubSeq(s, 1, Len(s) - 1)) ELSE s

Trim(s) == TrimEnd(TrimStart(s))

\* the prompt is not trimmed before the test
HasPromptUntrimmed(cmd) == cmd # <<>>

\* command && command.trim()
HasPrompt(cmd) == cmd # <<>> /\ Trim(cmd) # <<>>

\* args.indexOf(x), 0 when absent (JavaScript's -1)
IndexOf(a, x) == IF \E i \in 1..Len(a) : a[i] = x
                 THEN CHOOSE i \in 1..Len(a) : a[i] = x /\ \A j \in 1..(i - 1) : a[j] # x
                 ELSE 0

\* ------------------------------------------------------------------ spawnQ: arguments
InitialArgs(cmd) == IF HasPrompt(cmd) THEN <<(<<"chat">>), cmd>> ELSE <<(<<"chat">>)>>

TempDirOf(t) == WorkingDir \o <<"/.tmp/images/", ToString(t)>>

\* image.data.match(/^data:([^;]+);base64,(.+)$/)
Matches(image) == /\ image.data.prefix = "data:"
                  /\ image.data.mime # <<>>
                  /\ image.data.sep = ";base64,"
                  /\ image.data.payload # ""

\* mimeType.split('/')[1] || 'png'
Extension(image) == IF Len(image.data.mime) >= 2 /\ image.data.mime[2] # ""
                    THEN image.data.mime[2] ELSE "png"

\* the file is named after its type only
FilePathNoIndex(dir, i, image) == dir \o <<"/image.", Extension(image)>>

\* path.join(tempDir, `image_${index}.${extension}`), index counted from 0
FilePath(dir, i, image) == dir \o <<"/image_", ToString(i - 1), ".", Extension(image)>>

RECURSIVE PathLines(_, _)
PathLines(paths, i) ==
  IF i > Len(paths) THEN <<>>
  ELSE (IF i > 1 THEN <<"\n">> ELSE <<>>) \o <<ToString(i), ". ">> \o paths[i] \o PathLines(paths, i + 1)

ImageNote(paths) == <<"\n\n[Images provided at the following paths:]\n">> \o PathLines(paths, 1)

\* lines 63-73: the note replaces the element after '--message', when there is one
WithImageNote(a, cmd, paths) ==
  IF paths # <<>> /\ HasPrompt(cmd)
  THEN LET messageIndex == IndexOf(a, <<"--message">>)
       IN IF messageIndex # 0 /\ messageIndex + 1 <= Len(a) /\ a[messageIndex + 1] # <<>>
          THEN [a EXCEPT ![messageIndex + 1] = cmd \o ImageNote(paths)]
          ELSE a
  ELSE a

FinalArgs(a, cmd, paths, noteReached) ==
  (IF noteReached THEN WithImageNote(a, cmd, paths) ELSE a) \o <<(<<"--verbose">>)>>

\* image.data is undefined: image.data.match throws a TypeError
Throws(image) == "data" \notin DOMAIN image

\* first image at or after position i that throws or matches (the others are
\* skipped by `continue`), 0 when none is left
RECURSIVE NextMatching(_, _)
NextMatching(imgs, i) ==
  IF i > Len(imgs) THEN 0
  ELSE IF Throws(imgs[i]) \/ Matches(imgs[i]) THEN i ELSE NextMatching(imgs, i + 1)

\* ------------------------------------------------------------------ filesystem
\* fs.mkdir(dir, { recursive: true }) creates dir and every missing ancestor
MkdirCreates(dir) ==
  {WorkingDir, WorkingDir \o <<"/.tmp">>, WorkingDir \o <<"/.tmp/images">>, dir}

Under(path, dir) == Len(path) >= Len(dir) /\ SubSeq(path, 1, Len(dir)) = dir

\* fs.rmdir(dir, { recursive: true })
RemoveTree(paths, dir) == {q \in paths : ~Under(q, dir)}

\* the handlers leave the directory behind
RequestCleanupNever(c, r, dir) == c

\* if (tempDir) fs.rmdir(...) in the close and the error handler
RequestCleanup(c, r, dir) == IF dir # <<>> THEN [c EXCEPT ![r] = "pending"] ELSE c

\* ------------------------------------------------------------------ registry and sink
RegistrySet(reg, s, h) == [k \in DOMAIN reg \cup {s} |-> IF k = s THEN h ELSE reg[k]]
\* Map.clear in place of Map.delete
RegistryDeleteAll(reg, s) == [k \in {} |-> 0]

RegistryDelete(reg, s) == [k \in DOMAIN reg \ {s} |-> reg[k]]

Register(reg, s, h) == IF s # NoSid THEN RegistrySet(reg, s, h) ELSE reg

\* the entry stays behind
UnregisterKeeps(reg, s) == reg

Unregister(reg, s) == IF s # NoSid THEN RegistryDelete(reg, s) ELSE reg

\* ws && ws.readyState === 1
SinkOpen(w) == w = "OPEN"

Send(w, e) == IF SinkOpen(w) THEN <<e>> ELSE <<>>

GeneratedId(t) == "q-session-" \o ToString(t)

\* session-created only for a caller-supplied id
SessionCreatedOnlyWithId(s, w, t) ==
  IF s # NoSid THEN Send(w, [type |-> "session-created", sessionId |-> s]) ELSE <<>>

SessionCreated(s, w, t) ==
  Send(w, [type |-> "session-created", sessionId |-> IF s # NoSid THEN s ELSE GeneratedId(t)])

\* standard output is reported with the type of standard error
OutputEventAsError(s, w, chunk) == Send(w, [type |-> "q-error", data |-> chunk, sessionId |-> s])

OutputEvent(s, w, chunk) == Send(w, [type |-> "q-output", data |-> chunk, sessionId |-> s])
ErrorChunkEvent(s, w, chunk) == Send(w, [type |-> "q-error", data |-> chunk, sessionId |-> s])
CompleteEvent(s, w, code) == Send(w, [type |-> "q-complete", sessionId |-> s, exitCode |-> code])
\* the failed launch is not reported
LaunchErrorEventSilent(s, w) == <<>>

LaunchErrorEvent(s, w) == Send(w, [type |-> "q-error", error |-> "spawn q ENOENT", sessionId |-> s])

\* a promise is settled by the first resolve or reject only
Settle(p, v) == IF p = Pending THEN v ELSE p

\* every exit resolves
CloseResultAlwaysResolves(code, out, err, s) ==
  [state |-> "fulfilled", success |-> TRUE, output |-> out, sessionId |-> s]

CloseResult(code, out, err, s) ==
  IF code = Code(0)
  THEN [state |-> "fulfilled", success |-> TRUE, output |-> out, sessionId |-> s]
  ELSE [state |-> "rejected", code |-> code, stderr |-> err]

LaunchFailure == [state |-> "rejected", error |-> "spawn q ENOENT"]

\* ------------------------------------------------------------------ MCP router
Reqs == 1..MaxReqs
McpNames == {"git", "db"}
McpOps == {"add", "update", "remove", "toggle"}

NoServers == [k \in {} |-> [enabled |-> TRUE, command |-> ""]]
NoReq == [pc |-> "idle", op |-> "", name |-> "", enabled |-> TRUE, config |-> NoServers,
          status |-> 0]

InitMcp ==
  /\ mcpFile = NoServers
  /\ req = [q \in Reqs |-> NoReq]

\* config.mcpServers[name] = serverConfig
WithServer(config, name, serverConfig) ==
  [k \in DOMAIN config \cup {name} |-> IF k = name THEN serverConfig ELSE config[k]]

\* delete config.mcpServers[name]
WithoutServer(config, name) == [k \in DOMAIN config \ {name} |-> config[k]]

Respond(q, code) == req' = [req EXCEPT ![q].pc = "done", ![q].status = code]

\* a request arrives and calls readMcpConfig (lines 395, 451, 500, 565)
McpRequest(q, op, name, enabled) ==
  /\ req[q].pc = "idle"
  /\ \A o \in Reqs : o < q => req[o].pc # "idle"
  /\ req' = [req EXCEPT ![q] = [NoReq EXCEPT !.pc = "read", !.op = op, !.name = name,
                                             !.enabled = enabled]]
  /\ UNCHANGED mcpFile
  /\ UNCHANGED <<qVars, projVars>>

\* readMcpConfig settles; the handler changes its copy and calls writeMcpConfig
McpReadSettled(q, ok) ==
  /\ req[q].pc = "read"
  /\ UNCHANGED mcpFile
  /\ LET config == mcpFile
         name == req[q].name
         known == name \in DOMAIN config
         Write(c) == req' = [req EXCEPT ![q].pc = "write", ![q].config = c]
     IN IF ~ok THEN Respond(q, 500)
        ELSE IF req[q].op = "add"
        THEN IF known THEN Respond(q, 409)
             ELSE Write(WithServer(config, name,
                                   [enabled |-> req[q].enabled, command |-> "added"]))
        ELSE IF ~known THEN Respond(q, 404)
        ELSE IF req[q].op = "update"
        THEN Write(WithServer(config, name,
                              [enabled |-> req[q].enabled, command |-> "updated"]))
        ELSE IF req[q].op = "remove"
        THEN Write(WithoutServer(config, name))
        ELSE Write(WithServer(config, name, [config[name] EXCEPT !.enabled = req[q].enabled]))
  /\ UNCHANGED <<qVars, projVars>>

\* writeMcpConfig settles: the file is replaced by the handler's copy
McpWriteSettled(q, ok) ==
  /\ req[q].pc = "write"
  /\ mcpFile' = IF ok THEN req[q].config ELSE mcpFile
  /\ Respond(q, IF ok THEN 200 ELSE 500)
  /\ UNCHANGED <<qVars, projVars>>

\* ------------------------------------------------------------------ projects.js: state
Calls == 1..MaxCalls

NoDisplayNames == [k \in {} |-> ""]
NoSessions == [k \in {} |-> [dir |-> "", projectPath |-> <<>>, messageCount |-> 0]]
NoLogs == [k \in {} |-> <<>>]
NoAddCall == [pc |-> "idle", sid |-> 0, found |-> FALSE,
              session |-> [dir |-> "", projectPath |-> <<>>, messageCount |-> 0], msg |-> ""]

InitProjects ==
  /\ projectConfig = [projectDisplayNames |-> NoDisplayNames]
  /\ sessionMeta = NoSessions
  /\ messageLog = NoLogs
  /\ sessionsCreated = 0
  /\ listing = {}
  /\ addCall = [c \in Calls |-> NoAddCall]

\* ------------------------------------------------------------------ projects.js
\* the project directories on disk, in the order getProjects scans them
AppA == [fullPath |-> <<"~/projects", "app">>, name |-> "app", packageName |-> "my-app",
         readmeTitle |-> ""]
Lib == [fullPath |-> <<"~/projects", "lib">>, name |-> "lib", packageName |-> "",
        readmeTitle |-> ""]
AppB == [fullPath |-> <<"~/dev", "app">>, name |-> "app", packageName |-> "",
         readmeTitle |-> "App Two"]
ProjectDirs == <<AppA, Lib, AppB>>
ProjectNames == {"app", "lib"}
NewNames == {"Shop"}

\* path.basename
Basename(path) == path[Len(path)]

GenerateDisplayName(project) ==
  IF project.packageName # "" THEN project.packageName
  ELSE IF project.readmeTitle # "" THEN project.readmeTitle
  ELSE Basename(project.fullPath)

\* path.join(os.homedir(), '.q-developer', 'sessions', path.basename(projectPath))
SessionsDir(projectPath) == Basename(projectPath)

\* the parsed <id>.json files of the project's sessions directory
GetSessionsForProject(projectPath) ==
  {[id |-> id, projectPath |-> sessionMeta[id].projectPath,
    messageCount |-> sessionMeta[id].messageCount] :
     id \in {i \in DOMAIN sessionMeta : sessionMeta[i].dir = SessionsDir(projectPath)}}

ProjectsFound ==
  {[name |-> ProjectDirs[i].name, displayName |-> GenerateDisplayName(ProjectDirs[i]),
    fullPath |-> ProjectDirs[i].fullPath,
    sessions |-> GetSessionsForProject(ProjectDirs[i].fullPath)] : i \in 1..Len(ProjectDirs)}

\* getSessions().find(s => s.id === sessionId): the session as the first project that
\* lists it gives it, its projectPath replaced by that project's fullPath
Lists(i, id) == id \in DOMAIN sessionMeta /\ sessionMeta[id].dir = SessionsDir(ProjectDirs[i].fullPath)
SessionFound(id) == \E i \in 1..Len(ProjectDirs) : Lists(i, id)
FindSession(id) ==
  LET first == CHOOSE i \in 1..Len(ProjectDirs) :
                 Lists(i, id) /\ \A j \in 1..(i - 1) : ~Lists(j, id)
  IN [dir |-> SessionsDir(ProjectDirs[first].fullPath),
      projectPath |-> ProjectDirs[first].fullPath,
      messageCount |-> sessionMeta[id].messageCount]

GetSessionMessages(id) ==
  IF SessionFound(id) /\ id \in DOMAIN messageLog THEN messageLog[id] ELSE <<>>

WithEntry(f, k, v) == [x \in DOMAIN f \cup {k} |-> IF x = k THEN v ELSE f[x]]
WithoutKeys(f, ks) == [x \in DOMAIN f \ ks |-> f[x]]

\* the session id is made of the clock and a random string
CreateSession(project) ==
  /\ sessionsCreated < MaxSessions
  /\ sessionsCreated' = sessionsCreated + 1
  /\ sessionMeta' = WithEntry(sessionMeta, sessionsCreated + 1,
                              [dir |-> SessionsDir(project.fullPath),
                               projectPath |-> project.fullPath, messageCount |-> 0])
  /\ UNCHANGED <<projectConfig, messageLog, listing, addCall>>
  /\ UNCHANGED <<qVars, mcpVars>>

GetProjects ==
  /\ listing' = ProjectsFound
  /\ UNCHANGED <<projectConfig, sessionMeta, messageLog, sessionsCreated, addCall>>
  /\ UNCHANGED <<qVars, mcpVars>>

RenameProject(oldName, newName) ==
  /\ projectConfig' = [projectConfig EXCEPT !.projectDisplayNames = WithEntry(@, oldName, newName)]
  /\ UNCHANGED <<sessionMeta, messageLog, sessionsCreated, listing, addCall>>
  /\ UNCHANGED <<qVars, mcpVars>>

\* the session's two files are unlinked
DeleteSession(id) ==
  /\ SessionFound(id)
  /\ sessionMeta' = WithoutKeys(sessionMeta, {id})
  /\ messageLog' = WithoutKeys(messageLog, {id})
  /\ UNCHANGED <<projectConfig, sessionsCreated, listing, addCall>>
  /\ UNCHANGED <<qVars, mcpVars>>

\* the display name is dropped and the sessions directory of that name removed
DeleteProject(projectName) ==
  /\ projectConfig' = [projectConfig EXCEPT !.projectDisplayNames = WithoutKeys(@, {projectName})]
  /\ LET gone == {id \in DOMAIN sessionMeta : sessionMeta[id].dir = projectName}
     IN /\ sessionMeta' = WithoutKeys(sessionMeta, gone)
        /\ messageLog' = WithoutKeys(messageLog, {id \in DOMAIN messageLog : id \in gone})
  /\ UNCHANGED <<sessionsCreated, listing, addCall>>
  /\ UNCHANGED <<qVars, mcpVars>>

\* addMessageToSession up to its first write: getSessions and find
AddRead(c, id) ==
  /\ addCall[c].pc = "idle"
  /\ \A o \in Calls : o < c => addCall[o].pc # "idle"
  /\ addCall' = [addCall EXCEPT ![c] =
                   IF SessionFound(id)
                   THEN [pc |-> "append", sid |-> id, found |-> TRUE,
                         session |-> FindSession(id), msg |-> "msg-" \o ToString(c)]
                   ELSE [NoAddCall EXCEPT !.pc = "failed", !.sid = id]]
  /\ UNCHANGED <<projectConfig, sessionMeta, messageLog, sessionsCreated, listing>>
  /\ UNCHANGED <<qVars, mcpVars>>

\* fs.appendFile settles
AddAppend(c) ==
  /\ addCall[c].pc = "append"
  /\ LET id == addCall[c].sid
     IN messageLog' = WithEntry(messageLog, id,
                                Append(IF id \in DOMAIN messageLog THEN messageLog[id] ELSE <<>>,
                                       addCall[c].msg))
  /\ addCall' = [addCall EXCEPT ![c].pc = "write"]
  /\ UNCHANGED <<projectConfig, sessionMeta, sessionsCreated, listing>>
  /\ UNCHANGED <<qVars, mcpVars>>

\* the session file is rewritten from the call's copy, and the call returns
AddWriteMeta(c) ==
  /\ addCall[c].pc = "write"
  /\ sessionMeta' = WithEntry(sessionMeta, addCall[c].sid,
                              [addCall[c].session EXCEPT !.messageCount = @ + 1])
  /\ addCall' = [addCall EXCEPT ![c].pc = "returned"]
  /\ UNCHANGED <<projectConfig, messageLog, sessionsCreated, listing>>
  /\ UNCHANGED <<qVars, mcpVars>>

\* ------------------------------------------------------------------ initial state
InitWith(existing) ==
  /\ InitMcp
  /\ InitProjects
  /\ dirs = existing
  /\ files = {}
  /\ cleanup = [r \in Runs |-> "none"]
  /\ stagingError = [r \in Runs |-> "none"]
  /\ now = 0
  /\ activeQProcesses = [k \in {} |-> 0]
  /\ pc = [r \in Runs |-> "idle"]
  /\ sessionId = [r \in Runs |-> NoSid]
  /\ ws = [r \in Runs |-> "null"]
  /\ command = [r \in Runs |-> <<>>]
  /\ images = [r \in Runs |-> <<>>]
  /\ args = [r \in Runs |-> <<>>]
  /\ tempDir = [r \in Runs |-> <<>>]
  /\ tempImagePaths = [r \in Runs |-> <<>>]
  /\ imgIndex = [r \in Runs |-> 0]
  /\ events = [r \in Runs |-> <<>>]
  /\ outputBuffer = [r \in Runs |-> <<>>]
  /\ errorBuffer = [r \in Runs |-> <<>>]
  /\ exitCode = [r \in Runs |-> NullCode]
  /\ launchError = [r \in Runs |-> FALSE]
  /\ killed = [r \in Runs |-> FALSE]
  /\ signals = [r \in Runs |-> <<>>]
  /\ timer = [r \in Runs |-> "none"]
  /\ result = [r \in Runs |-> Pending]
  /\ abortCall = NoCall
  /\ chunksRead = 0

\* the working directory exists
Init == InitWith({WorkingDir})

\* the working directory may be missing
InitAnyDir == \E existing \in {{}, {WorkingDir}} : InitWith(existing)

\* ------------------------------------------------------------------ spawnQ
\* lines 80-236: push --verbose, spawn, register, attach the handlers, send
\* session-created.  A child that cannot be spawned emits 'error' on the next
\* tick, before any other callback runs (lines 192-222).
Launch(r, s, w, a, launched) ==
  /\ launched => WorkingDir \in dirs'
  /\ args' = [args EXCEPT ![r] = a]
  /\ IF launched
     THEN /\ activeQProcesses' = Register(activeQProcesses, s, r)
          /\ events' = [events EXCEPT ![r] = SessionCreated(s, w, now)]
          /\ pc' = [pc EXCEPT ![r] = "running"]
          /\ UNCHANGED <<launchError, exitCode, result, cleanup>>
     ELSE /\ activeQProcesses' = Unregister(Register(activeQProcesses, s, r), s)
          /\ cleanup' = RequestCleanup(cleanup, r, tempDir[r])
          /\ events' = [events EXCEPT ![r] = SessionCreated(s, w, now) \o LaunchErrorEvent(s, w)]
          /\ pc' = [pc EXCEPT ![r] = "errored"]
          /\ launchError' = [launchError EXCEPT ![r] = TRUE]
          /\ exitCode' = [exitCode EXCEPT ![r] = ENOENT]
          /\ result' = [result EXCEPT ![r] = Settle(result[r], LaunchFailure)]

\* lines 45-61 from image `from` on, up to the next await or the end of the loop
ContinueStaging(r, from, paths, launched) ==
  LET i == NextMatching(images[r], from)
  IN /\ tempImagePaths' = [tempImagePaths EXCEPT ![r] = paths]
     /\ imgIndex' = [imgIndex EXCEPT ![r] = i]
     /\ IF i = 0
        THEN /\ Launch(r, sessionId[r], ws[r], FinalArgs(args[r], command[r], paths, TRUE), launched)
             /\ UNCHANGED stagingError
        ELSE IF Throws(images[r][i])
        THEN /\ stagingError' = [stagingError EXCEPT ![r] = "TypeError"]
             /\ Launch(r, sessionId[r], ws[r], FinalArgs(args[r], command[r], paths, FALSE), launched)
        ELSE /\ launched
             /\ pc' = [pc EXCEPT ![r] = "write"]
             /\ UNCHANGED <<activeQProcesses, events, args, launchError, exitCode, result,
                            cleanup, stagingError>>

\* lines 8-42, and all of spawnQ when there is no image
SpawnQ(r, s, cmd, imgs, w, launched) ==
  /\ pc[r] = "idle"
  /\ \A q \in Runs : q < r => pc[q] # "idle"
  /\ sessionId' = [sessionId EXCEPT ![r] = s]
  /\ command' = [command EXCEPT ![r] = cmd]
  /\ images' = [images EXCEPT ![r] = imgs]
  /\ ws' = [ws EXCEPT ![r] = w]
  /\ UNCHANGED <<dirs, files, stagingError>>
  /\ IF imgs # <<>>
     THEN /\ launched
          /\ tempDir' = [tempDir EXCEPT ![r] = TempDirOf(now)]
          /\ args' = [args EXCEPT ![r] = InitialArgs(cmd)]
          /\ pc' = [pc EXCEPT ![r] = "mkdir"]
          /\ UNCHANGED <<activeQProcesses, events, launchError, exitCode, result, cleanup>>
     ELSE /\ Launch(r, s, w, FinalArgs(InitialArgs(cmd), cmd, <<>>, FALSE), launched)
          /\ UNCHANGED tempDir
  /\ abortCall' = NoCall
  /\ UNCHANGED <<now, tempImagePaths, imgIndex, outputBuffer, errorBuffer, killed, signals,
                 timer, chunksRead>>
  /\ UNCHANGED <<mcpVars, projVars>>

\* line 42 settles
MkdirSettled(r, ok, launched) ==
  /\ pc[r] = "mkdir"
  /\ dirs' = IF ok THEN dirs \cup MkdirCreates(tempDir[r]) ELSE dirs
  /\ UNCHANGED files
  /\ IF ok
     THEN ContinueStaging(r, 1, <<>>, launched)
     ELSE /\ stagingError' = [stagingError EXCEPT ![r] = "EIO"]
          /\ Launch(r, sessionId[r], ws[r], FinalArgs(args[r], command[r], <<>>, FALSE), launched)
          /\ UNCHANGED <<tempImagePaths, imgIndex>>
  /\ abortCall' = NoCall
  /\ UNCHANGED <<now, sessionId, ws, command, images, tempDir, outputBuffer, errorBuffer,
                 killed, signals, timer, chunksRead>>
  /\ UNCHANGED <<mcpVars, projVars>>

\* line 59 settles; a file cannot be written into a directory that is gone
WriteFileSettled(r, ok, launched) ==
  /\ pc[r] = "write"
  /\ ok => tempDir[r] \in dirs
  /\ files' = IF ok THEN files \cup {FilePath(tempDir[r], imgIndex[r], images[r][imgIndex[r]])}
               ELSE files
  /\ UNCHANGED dirs
  /\ IF ok
     THEN ContinueStaging(r, imgIndex[r] + 1,
                          Append(tempImagePaths[r],
                                 FilePath(tempDir[r], imgIndex[r], images[r][imgIndex[r]])),
                          launched)
     ELSE /\ stagingError' = [stagingError EXCEPT ![r] = "EIO"]
          /\ Launch(r, sessionId[r], ws[r],
                    FinalArgs(args[r], command[r], tempImagePaths[r], FALSE), launched)
          /\ UNCHANGED <<tempImagePaths, imgIndex>>
  /\ abortCall' = NoCall
  /\ UNCHANGED <<now, sessionId, ws, command, images, tempDir, outputBuffer, errorBuffer,
                 killed, signals, timer, chunksRead>>
  /\ UNCHANGED <<mcpVars, projVars>>

\* ------------------------------------------------------------------ the child's events
\* lines 106-126
OnStdout(r, chunk) ==
  /\ pc[r] \in {"running", "exited"}
  /\ chunksRead < MaxChunks
  /\ chunksRead' = chunksRead + 1
  /\ outputBuffer' = [outputBuffer EXCEPT ![r] = Append(@, chunk)]
  /\ events' = [events EXCEPT ![r] = @ \o OutputEvent(sessionId[r], ws[r], chunk)]
  /\ abortCall' = NoCall
  /\ UNCHANGED <<now, activeQProcesses, pc, sessionId, ws, command, images, args, tempDir,
                 tempImagePaths, imgIndex, errorBuffer, exitCode, launchError, killed,
                 signals, timer, result, dirs, files, cleanup,
                 stagingError>>
  /\ UNCHANGED <<mcpVars, projVars>>

\* lines 129-148
OnStderr(r, chunk) ==
  /\ pc[r] \in {"running", "exited"}
  /\ chunksRead < MaxChunks
  /\ chunksRead' = chunksRead + 1
  /\ errorBuffer' = [errorBuffer EXCEPT ![r] = Append(@, chunk)]
  /\ events' = [events EXCEPT ![r] = @ \o ErrorChunkEvent(sessionId[r], ws[r], chunk)]
  /\ abortCall' = NoCall
  /\ UNCHANGED <<now, activeQProcesses, pc, sessionId, ws, command, images, args, tempDir,
                 tempImagePaths, imgIndex, outputBuffer, exitCode, launchError, killed,
                 signals, timer, result, dirs, files, cleanup,
                 stagingError>>
  /\ UNCHANGED <<mcpVars, projVars>>

\* the child ends: its handle is gone, its pipes may still hold data
ProcessExit(r, code) ==
  /\ pc[r] = "running"
  /\ pc' = [pc EXCEPT ![r] = "exited"]
  /\ exitCode' = [exitCode EXCEPT ![r] = code]
  /\ abortCall' = NoCall
  /\ UNCHANGED <<now, activeQProcesses, sessionId, ws, command, images, args, tempDir,
                 tempImagePaths, imgIndex, events, outputBuffer, errorBuffer, launchError,
                 killed, signals, timer, result, chunksRead, dirs, files, cleanup,
                 stagingError>>
  /\ UNCHANGED <<mcpVars, projVars>>

\* lines 151-189; 'close' also follows the 'error' of a child that failed to spawn
OnClose(r) ==
  /\ pc[r] \in {"exited", "errored"}
  /\ pc' = [pc EXCEPT ![r] = "closed"]
  /\ activeQProcesses' = Unregister(activeQProcesses, sessionId[r])
  /\ events' = [events EXCEPT ![r] = @ \o CompleteEvent(sessionId[r], ws[r], exitCode[r])]
  /\ result' = [result EXCEPT ![r] =
                  Settle(@, CloseResult(exitCode[r], outputBuffer[r], errorBuffer[r], sessionId[r]))]
  /\ cleanup' = RequestCleanup(cleanup, r, tempDir[r])
  /\ abortCall' = NoCall
  /\ UNCHANGED <<now, sessionId, ws, command, images, args, tempDir, tempImagePaths, imgIndex,
                 outputBuffer, errorBuffer, exitCode, launchError, killed, signals, timer,
                 chunksRead, dirs, files, stagingError>>
  /\ UNCHANGED <<mcpVars, projVars>>

\* a failed removal fails the run
RmdirSettledFatal(r, ok) ==
  /\ cleanup[r] = "pending"
  /\ cleanup' = [cleanup EXCEPT ![r] = IF ok THEN "done" ELSE "failed"]
  /\ dirs' = IF ok THEN RemoveTree(dirs, tempDir[r]) ELSE dirs
  /\ files' = IF ok THEN RemoveTree(files, tempDir[r]) ELSE files
  /\ result' = IF ok THEN result
               ELSE [result EXCEPT ![r] = [state |-> "rejected", error |-> "ENOTEMPTY"]]
  /\ abortCall' = NoCall
  /\ UNCHANGED <<now, activeQProcesses, pc, sessionId, ws, command, images, args, tempDir,
                 tempImagePaths, imgIndex, events, outputBuffer, errorBuffer, exitCode,
                 launchError, killed, signals, timer, chunksRead, stagingError>>
  /\ UNCHANGED <<mcpVars, projVars>>

\* the fs.rmdir of lines 156 and 197 settles; its failure is logged and ignored
RmdirSettled(r, ok) ==
  /\ cleanup[r] = "pending"
  /\ cleanup' = [cleanup EXCEPT ![r] = IF ok THEN "done" ELSE "failed"]
  /\ dirs' = IF ok THEN RemoveTree(dirs, tempDir[r]) ELSE dirs
  /\ files' = IF ok THEN RemoveTree(files, tempDir[r]) ELSE files
  /\ abortCall' = NoCall
  /\ UNCHANGED <<now, activeQProcesses, pc, sessionId, ws, command, images, args, tempDir,
                 tempImagePaths, imgIndex, events, outputBuffer, errorBuffer, exitCode,
                 launchError, killed, signals, timer, result, chunksRead, stagingError>>
  /\ UNCHANGED <<mcpVars, projVars>>

\* ------------------------------------------------------------------ abortQSession
\* the signal is sent whether or not the child still exists
KillSentAlways(r) == TRUE

\* ChildProcess.kill: the signal is sent while the handle exists, and only then
\* is .killed set
KillSent(r) == pc[r] = "running"

\* lines 244-259
AbortFound(s) ==
  /\ s \in DOMAIN activeQProcesses
  /\ ~killed[activeQProcesses[s]]
  /\ LET q == activeQProcesses[s]
     IN /\ killed' = [killed EXCEPT ![q] = KillSent(q)]
        /\ signals' = [signals EXCEPT ![q] = IF KillSent(q) THEN Append(@, "SIGTERM") ELSE @]
        /\ timer' = [timer EXCEPT ![q] = "armed"]
  /\ activeQProcesses' = RegistryDelete(activeQProcesses, s)
  /\ abortCall' = [called |-> TRUE, sid |-> s, ret |-> TRUE]

\* nothing found, yet true is returned
AbortNotFoundReturnsTrue(s) ==
  /\ ~(s \in DOMAIN activeQProcesses /\ ~killed[activeQProcesses[s]])
  /\ abortCall' = [called |-> TRUE, sid |-> s, ret |-> TRUE]
  /\ UNCHANGED <<activeQProcesses, killed, signals, timer>>

\* lines 264-267
AbortNotFound(s) ==
  /\ ~(s \in DOMAIN activeQProcesses /\ ~killed[activeQProcesses[s]])
  /\ abortCall' = [called |-> TRUE, sid |-> s, ret |-> FALSE]
  /\ UNCHANGED <<activeQProcesses, killed, signals, timer>>

AbortQSession(s) ==
  /\ AbortFound(s) \/ AbortNotFound(s)
  /\ UNCHANGED <<now, pc, sessionId, ws, command, images, args, tempDir, tempImagePaths,
                 imgIndex, events, outputBuffer, errorBuffer, exitCode, launchError, result,
                 chunksRead, dirs, files, cleanup,
                 stagingError>>
  /\ UNCHANGED <<mcpVars, projVars>>

\* lines 250-255, five seconds after the abort
ForceKill(r) ==
  IF ~killed[r]
  THEN /\ killed' = [killed EXCEPT ![r] = KillSent(r)]
       /\ signals' = [signals EXCEPT ![r] = IF KillSent(r) THEN Append(@, "SIGKILL") ELSE @]
  ELSE UNCHANGED <<killed, signals>>

ForceKillTimeout(r) ==
  /\ timer[r] = "armed"
  /\ timer' = [timer EXCEPT ![r] = "fired"]
  /\ ForceKill(r)
  /\ abortCall' = NoCall
  /\ UNCHANGED <<now, activeQProcesses, pc, sessionId, ws, command, images, args, tempDir,
                 tempImagePaths, imgIndex, events, outputBuffer, errorBuffer, exitCode,
                 launchError, result, chunksRead, dirs, files, cleanup,
                 stagingError>>
  /\ UNCHANGED <<mcpVars, projVars>>

\* ------------------------------------------------------------------ environment
\* the client's socket closes
SinkClose(r) ==
  /\ pc[r] \notin {"idle", "closed"}
  /\ ws[r] = "OPEN"
  /\ ws' = [ws EXCEPT ![r] = "CLOSED"]
  /\ abortCall' = NoCall
  /\ UNCHANGED <<now, activeQProcesses, pc, sessionId, command, images, args, tempDir,
                 tempImagePaths, imgIndex, events, outputBuffer, errorBuffer, exitCode,
                 launchError, killed, signals, timer, result, chunksRead, dirs, files, cleanup,
                 stagingError>>
  /\ UNCHANGED <<mcpVars, projVars>>

\* a millisecond passes
Tick ==
  /\ now < MaxTime
  /\ now' = now + 1
  /\ abortCall' = NoCall
  /\ UNCHANGED <<activeQProcesses, pc, sessionId, ws, command, images, args, tempDir,
                 tempImagePaths, imgIndex, events, outputBuffer, errorBuffer, exitCode,
                 launchError, killed, signals, timer, result, chunksRead, dirs, files, cleanup,
                 stagingError>>
  /\ UNCHANGED <<mcpVars, projVars>>

\* ------------------------------------------------------------------ specifications
\* Every handler over concurrent runs.  Session ids are interchangeable, so the
\* first run takes "s1" or none.  The staging succeeds and the removal of the
\* staging directories is still to settle; SpecRun and SpecStaging follow both.
Next ==
  \/ \E r \in Runs : \E s \in (IF r = 1 THEN {"s1", NoSid} ELSE SpecSids), cmd \in SpecCommands,
        imgs \in SpecImages, w \in SpecSinks, launched \in BOOLEAN :
        SpawnQ(r, s, cmd, imgs, w, launched)
  \/ \E r \in Runs, launched \in BOOLEAN : MkdirSettled(r, TRUE, launched)
  \/ \E r \in Runs, launched \in BOOLEAN : WriteFileSettled(r, TRUE, launched)
  \/ \E r \in Runs, chunk \in SpecChunks : chunksRead < MaxSharedChunks /\ OnStdout(r, chunk)
  \/ \E r \in Runs, chunk \in SpecChunks : chunksRead < MaxSharedChunks /\ OnStderr(r, chunk)
  \/ \E r \in Runs, code \in ExitCodes : ProcessExit(r, code)
  \/ \E r \in Runs : OnClose(r)
  \/ \E s \in SessionIds : AbortQSession(s)
  \/ \E r \in Runs : ForceKillTimeout(r)
  \/ \E r \in Runs : SinkClose(r)

Spec == Init /\ [][Next]_vars

\* One run in full: every sink state, chunk text, staging outcome and clock.
NextRun ==
  \/ \E s \in {"s1", NoSid}, cmd \in SpecCommands, imgs \in SpecImages, w \in Sinks,
        launched \in BOOLEAN : SpawnQ(1, s, cmd, imgs, w, launched)
  \/ \E ok \in BOOLEAN, launched \in BOOLEAN : MkdirSettled(1, ok, launched)
  \/ \E ok \in BOOLEAN, launched \in BOOLEAN : WriteFileSettled(1, ok, launched)
  \/ \E chunk \in Chunks : OnStdout(1, chunk)
  \/ \E chunk \in Chunks : OnStderr(1, chunk)
  \/ \E code \in ExitCodes : ProcessExit(1, code)
  \/ OnClose(1)
  \/ \E s \in SessionIds : AbortQSession(s)
  \/ ForceKillTimeout(1)
  \/ SinkClose(1)
  \/ \E ok \in BOOLEAN : RmdirSettled(1, ok)
  \/ Tick

SpecRun == Init /\ [][NextRun]_vars

\* One spawnQ call over every prompt and attachment list.
NextArgs ==
  \/ \E cmd \in Commands, imgs \in ImageLists, w \in Sinks, launched \in BOOLEAN :
        SpawnQ(1, "s1", cmd, imgs, w, launched)
  \/ \E ok \in BOOLEAN, launched \in BOOLEAN : MkdirSettled(1, ok, launched)
  \/ \E ok \in BOOLEAN, launched \in BOOLEAN : WriteFileSettled(1, ok, launched)
  \/ \E code \in ExitCodes : ProcessExit(1, code)
  \/ OnClose(1)
  \/ \E ok \in BOOLEAN : RmdirSettled(1, ok)
  \/ Tick

SpecArgs == InitAnyDir /\ [][NextArgs]_vars

\* The staging of concurrent runs in one working directory, under the clock.
NextStaging ==
  \/ \E r \in Runs, imgs \in SpecImages :
        SpawnQ(r, NoSid, <<"h", "i">>, imgs, "OPEN", TRUE)
  \/ \E r \in Runs, ok \in BOOLEAN : MkdirSettled(r, ok, TRUE)
  \/ \E r \in Runs, ok \in BOOLEAN : WriteFileSettled(r, ok, TRUE)
  \/ \E r \in Runs : ProcessExit(r, Code(0))
  \/ \E r \in Runs : OnClose(r)
  \/ \E r \in Runs, ok \in BOOLEAN : RmdirSettled(r, ok)
  \/ Tick

SpecStaging == Init /\ [][NextStaging]_vars

\* Concurrent requests to the MCP router over one configuration file.
NextMcp ==
  \/ \E q \in Reqs, op \in McpOps, name \in McpNames, enabled \in BOOLEAN :
        McpRequest(q, op, name, enabled)
  \/ \E q \in Reqs, ok \in BOOLEAN : McpReadSettled(q, ok)
  \/ \E q \in Reqs, ok \in BOOLEAN : McpWriteSettled(q, ok)

SpecMcp == Init /\ [][NextMcp]_vars

\* The project listing with sessions created, renames and deletions.
NextProjects ==
  \/ \E i \in 1..Len(ProjectDirs) : CreateSession(ProjectDirs[i])
  \/ GetProjects
  \/ \E oldName \in ProjectNames, newName \in NewNames : RenameProject(oldName, newName)
  \/ \E id \in 1..MaxSessions : DeleteSession(id)
  \/ \E projectName \in ProjectNames : DeleteProject(projectName)

SpecProjects == Init /\ [][NextProjects]_vars

\* Concurrent addMessageToSession calls over the sessions created.
NextMessages ==
  \/ \E i \in 1..Len(ProjectDirs) : CreateSession(ProjectDirs[i])
  \/ \E c \in Calls, id \in 1..MaxSessions : AddRead(c, id)
  \/ \E c \in Calls : AddAppend(c)
  \/ \E c \in Calls : AddWriteMeta(c)

SpecMessages == Init /\ [][NextMessages]_vars

\* ------------------------------------------------------------------ properties
Range(seq) == {seq[i] : i \in 1..Len(seq)}

IsChunk(e) == e.type = "q-output" \/ (e.type = "q-error" /\ "data" \in DOMAIN e)
IsLaunchError(e) == e.type = "q-error" /\ "error" \in DOMAIN e
IsComplete(e) == e.type = "q-complete"
IsCreated(e) == e.type = "session-created"

Count(seq, P(_)) == Cardinality({i \in 1..Len(seq) : P(seq[i])})

Spawned(r) == pc[r] \in {"running", "exited", "errored", "closed"}
Launched(r) == Spawned(r) /\ ~launchError[r]
Aborted(r) == timer[r] # "none"
Holds(r) == \E s \in DOMAIN activeQProcesses : activeQProcesses[s] = r

\* session-created, chunks, and q-complete exactly when the run has closed
WellOrdered(e, closed) ==
  /\ Len(e) >= 1
  /\ IsCreated(e[1])
  /\ \A i \in 2..Len(e) : IsChunk(e[i]) \/ (IsComplete(e[i]) /\ i = Len(e))
  /\ closed <=> IsComplete(e[Len(e)])

\* C1 as claimed: the events of every run whose process launched are exactly one
\* session-created, then output/error chunks, then exactly one q-complete once the
\* process has closed, whatever the state of the sink.
C1_EventOrderAnySink ==
  \A r \in Runs : Launched(r) => WellOrdered(events[r], pc[r] = "closed")

\* C1 amended: the order holds for every launched run whose sink is open (it then has
\* been open since the call); with any sink, session-created is only ever the first
\* event, q-complete only the last, and neither is sent twice.
C1_EventOrder ==
  \A r \in Runs : Launched(r) =>
    /\ SinkOpen(ws[r]) => WellOrdered(events[r], pc[r] = "closed")
    /\ \A i \in 1..Len(events[r]) :
         /\ IsCreated(events[r][i]) => i = 1
         /\ IsComplete(events[r][i]) => i = Len(events[r]) /\ pc[r] = "closed"
         /\ IsChunk(events[r][i]) => i > 1

C1_Witness ==
  \E r \in Runs : Launched(r) /\ pc[r] = "closed" /\ SinkOpen(ws[r]) /\ Len(events[r]) = 4

\* C2: a run whose process failed to launch sends one launch-error event, rejects
\* with that error, and never sends q-complete.
C2_NoCompleteAfterLaunchFailure ==
  \A r \in Runs : launchError[r] =>
    /\ result[r] = LaunchFailure
    /\ Count(events[r], IsLaunchError) <= 1
    /\ Count(events[r], IsComplete) = 0

\* C3: once a run is terminal (closed, failed to launch, or aborted and exited) the
\* registry holds no entry for it, and the step that closes a run leaves its
\* session id out of the registry.
C3_TerminatedNotRegistered ==
  /\ [](\A r \in Runs :
          (pc[r] \in {"closed", "errored"} \/ (pc[r] = "exited" /\ Aborted(r))) => ~Holds(r))
  /\ [][\A r \in Runs : (pc[r] # "closed" /\ pc'[r] = "closed") =>
          sessionId[r] \notin DOMAIN activeQProcesses']_vars

C3_Witness ==
  \E r \in Runs : /\ pc[r] = "closed" /\ Launched(r) /\ ~Aborted(r)
                  /\ sessionId[r] # NoSid /\ sessionId[r] \notin DOMAIN activeQProcesses

\* C4: an abort that returns true has removed the session from the registry and sent
\* SIGTERM to the live process, and a process still running when the five seconds
\* have passed has been sent SIGKILL.
C4_AbortEscalates ==
  /\ (abortCall.called /\ abortCall.ret) => abortCall.sid \notin DOMAIN activeQProcesses
  /\ \A r \in Runs : (Aborted(r) /\ pc[r] = "running") => "SIGTERM" \in Range(signals[r])
  /\ \A r \in Runs : (timer[r] = "fired" /\ pc[r] = "running") => "SIGKILL" \in Range(signals[r])

\* C5: abortQSession with an id that is not in the registry returns false, sends no
\* signal, arms no timer and leaves the registry and every run as they were.
C5_AbortUnknownNoEffect ==
  [][(abortCall'.called /\ abortCall'.sid \notin DOMAIN activeQProcesses) =>
       /\ abortCall'.ret = FALSE
       /\ UNCHANGED <<activeQProcesses, killed, signals, timer, pc, events, result>>]_vars

C5_Witness ==
  /\ abortCall.called /\ ~abortCall.ret
  /\ abortCall.sid \notin DOMAIN activeQProcesses
  /\ \E r \in Runs : Holds(r) /\ pc[r] = "running"

\* C6: output is only consumed from a registered process, and an abort of session s
\* made after spawnQ was called for s and before that run ended never returns false
\* while the run is still to launch or running unaborted.
C6_AbortNeverMissesStartedRun ==
  /\ \A r \in Runs :
       (sessionId[r] # NoSid /\ ~Aborted(r) /\ pc[r] = "running") => Holds(r)
  /\ (abortCall.called /\ ~abortCall.ret) =>
       \A r \in Runs : (sessionId[r] # NoSid /\ sessionId[r] = abortCall.sid) =>
          (pc[r] \notin {"mkdir", "write", "running"} \/ Aborted(r))

\* C7: no two live, unaborted processes share a session id (one of them would be out
\* of the registry's reach), and only a spawned handle is ever in the registry.
C7_OneLiveHandlePerSession ==
  /\ \A r1, r2 \in Runs :
       (r1 # r2 /\ sessionId[r1] # NoSid /\ sessionId[r1] = sessionId[r2]) =>
          ~(pc[r1] = "running" /\ pc[r2] = "running" /\ ~Aborted(r1) /\ ~Aborted(r2))
  /\ \A r \in Runs : Holds(r) => Spawned(r)

\* C8: the close handler and the error handler never both run for one run, a run
\* sends at most one terminal event, and only a live, unaborted run is registered.
C8_TerminalOnce ==
  \A r \in Runs :
    /\ ~(launchError[r] /\ pc[r] = "closed")
    /\ Count(events[r], IsComplete) + Count(events[r], IsLaunchError) <= 1
    /\ Holds(r) => (pc[r] \in {"running", "exited"} /\ ~Aborted(r))

C10_PromptCarriesImageNote ==
  \A r \in Runs : (Spawned(r) /\ HasPrompt(command[r])) =>
    args[r][2] = IF tempImagePaths[r] # <<>>
                 THEN command[r] \o ImageNote(tempImagePaths[r])
                 ELSE command[r]

Valid(image) == ~Throws(image) /\ Matches(image)
AllValid(imgs) == \A i \in 1..Len(imgs) : Valid(imgs[i])
StagedFiles(r) == {f \in files : Under(f, tempDir[r])}

\* C12: a run given n valid images, whose mkdir and writes all succeed, is launched
\* with n staged paths, pairwise distinct and inside its staging directory, and while
\* its process lives exactly those n files exist there.
C12_ValidImagesAllStaged ==
  \A r \in Runs :
    (Spawned(r) /\ images[r] # <<>> /\ AllValid(images[r]) /\ stagingError[r] = "none") =>
      /\ Len(tempImagePaths[r]) = Len(images[r])
      /\ \A i, j \in 1..Len(tempImagePaths[r]) :
           i # j => tempImagePaths[r][i] # tempImagePaths[r][j]
      /\ \A i \in 1..Len(tempImagePaths[r]) :
           /\ Under(tempImagePaths[r][i], tempDir[r])
           /\ Len(tempImagePaths[r][i]) > Len(tempDir[r])
      /\ pc[r] \in {"running", "exited"} =>
           /\ StagedFiles(r) = Range(tempImagePaths[r])
           /\ Cardinality(StagedFiles(r)) = Len(images[r])

C12_Witness ==
  \E r \in Runs : /\ pc[r] = "running" /\ Len(images[r]) = 2 /\ AllValid(images[r])
                  /\ Cardinality(StagedFiles(r)) = 2

\* C13: a run that has a staging directory has asked for its removal once it has
\* ended, whether it closed with code 0, with another code, after an abort, or failed
\* to launch; and when the removal has succeeded the directory and its files are gone
\* (the directory being the run's own: a second run on the same path is C14's case).
C13_StagingRemovedOnEveryExit ==
  \A r \in Runs : (tempDir[r] # <<>> /\ pc[r] \in {"closed", "errored"}) =>
    /\ cleanup[r] # "none"
    /\ (cleanup[r] = "done" /\ \A q \in Runs \ {r} : tempDir[q] # tempDir[r]) =>
         (tempDir[r] \notin dirs /\ StagedFiles(r) = {})

C13_Witness ==
  \E r \in Runs : /\ pc[r] = "closed" /\ Aborted(r) /\ exitCode[r] = NullCode
                  /\ tempImagePaths[r] # <<>> /\ cleanup[r] = "done"
                  /\ tempDir[r] \notin dirs

\* C14: no two runs have the same staging directory, and every file a live run has
\* staged is still there (no other run's cleanup has removed it).
C14_StagingDirPrivate ==
  /\ \A r1, r2 \in Runs :
       (r1 # r2 /\ tempDir[r1] # <<>> /\ tempDir[r2] # <<>>) => tempDir[r1] # tempDir[r2]
  /\ \A r \in Runs : pc[r] = "running" => Range(tempImagePaths[r]) \subseteq files

\* the valid images of run r at the positions in `among` have been staged
StagedAll(r, among) ==
  \A i \in among : Valid(images[r][i]) =>
    FilePath(tempDir[r], i, images[r][i]) \in Range(tempImagePaths[r])

\* C15: when no staging I/O fails, every valid image of a spawned run has been staged,
\* whatever malformed attachments (wrong shape, or no data at all) stand before or
\* after it, and the promise is rejected only for a failed launch or a non-zero exit.
C15_MalformedSkippedAlone ==
  \A r \in Runs : (Spawned(r) /\ stagingError[r] # "EIO") =>
    /\ StagedAll(r, 1..Len(images[r]))
    /\ result[r].state = "rejected" => (launchError[r] \/ exitCode[r] # Code(0))

\* C16: a run one of whose writes failed has been spawned all the same, with every
\* other valid image of its list staged.
C16_WriteFailureAffectsOne ==
  \A r \in Runs : (stagingError[r] = "EIO" /\ imgIndex[r] # 0) =>
    /\ Spawned(r)
    /\ StagedAll(r, (1..Len(images[r])) \ {imgIndex[r]})

\* C17: no step creates the working directory, with or without images; a directory
\* that appears is the staging directory of a run or one of its ancestors below the
\* working directory, and a file that appears lies inside a run's staging directory.
C17_WorkingDirNeverCreated ==
  [][/\ WorkingDir \notin dirs => WorkingDir \notin dirs'
     /\ \A d \in dirs' \ dirs :
          \E r \in Runs : tempDir[r] # <<>> /\ d \in MkdirCreates(tempDir[r]) \ {WorkingDir}
     /\ \A f \in files' \ files :
          \E r \in Runs : tempDir[r] # <<>> /\ Under(f, tempDir[r]) /\ f # tempDir[r]]_vars

IsOutputChunk(e) == e.type = "q-output"
IsErrorChunk(e) == e.type = "q-error" /\ "data" \in DOMAIN e

\* the data of the events of e that satisfy P, in order
DataOf(e, P(_)) == LET sel == SelectSeq(e, P) IN [i \in 1..Len(sel) |-> sel[i].data]

\* C18 as claimed: for every launched run the q-output events carry, one for one and
\* in order, the chunks read from standard output, the q-error chunk events those read
\* from standard error, and a fulfilled promise's output is the q-output data in order.
C18_ChunksForwardedAnySink ==
  \A r \in Runs : Launched(r) =>
    /\ DataOf(events[r], IsOutputChunk) = outputBuffer[r]
    /\ DataOf(events[r], IsErrorChunk) = errorBuffer[r]
    /\ result[r].state = "fulfilled" => result[r].output = DataOf(events[r], IsOutputChunk)

\* C18 amended: the same for every launched run whose sink is open (it then has been
\* open since the call), each chunk read then appending exactly its own event; with
\* any sink a fulfilled promise's output is every chunk read from standard output, and
\* the events sent carry no more than the chunks read.
C18_ChunksForwarded ==
  /\ [](\A r \in Runs : Launched(r) =>
          /\ SinkOpen(ws[r]) =>
               /\ DataOf(events[r], IsOutputChunk) = outputBuffer[r]
               /\ DataOf(events[r], IsErrorChunk) = errorBuffer[r]
          /\ result[r].state = "fulfilled" => result[r].output = outputBuffer[r]
          /\ Len(DataOf(events[r], IsOutputChunk)) <= Len(outputBuffer[r])
          /\ Len(DataOf(events[r], IsErrorChunk)) <= Len(errorBuffer[r]))
  /\ [][\A r \in Runs : (SinkOpen(ws[r]) /\ outputBuffer'[r] # outputBuffer[r]) =>
          /\ Len(outputBuffer'[r]) = Len(outputBuffer[r]) + 1
          /\ Len(events'[r]) = Len(events[r]) + 1
          /\ events'[r][Len(events'[r])].type = "q-output"
          /\ events'[r][Len(events'[r])].data = outputBuffer'[r][Len(outputBuffer'[r])]]_vars

C18_Witness ==
  \E r \in Runs : /\ pc[r] = "closed" /\ SinkOpen(ws[r]) /\ result[r].state = "fulfilled"
                  /\ outputBuffer[r] = <<"a", "b">>
                  /\ DataOf(events[r], IsOutputChunk) = <<"a", "b">>

\* C19: every event of a run carries a session id, the same in all of them, and it is
\* the caller's id when the caller gave one.
C19_OneSessionIdPerRun ==
  \A r \in Runs : \A i \in 1..Len(events[r]) :
    /\ events[r][i].sessionId # NoSid
    /\ events[r][i].sessionId = events[r][1].sessionId
    /\ sessionId[r] # NoSid => events[r][i].sessionId = sessionId[r]

\* C20: the exit code of every q-complete event is an integer.
C20_ExitCodeIsInteger ==
  \A r \in Runs : \A i \in 1..Len(events[r]) :
    IsComplete(events[r][i]) =>
      (~events[r][i].exitCode.null /\ events[r][i].exitCode.n \in Int)

\* the run has ended in failure
Failed(r) == launchError[r] \/ (pc[r] = "closed" /\ exitCode[r] # Code(0))

\* C21 as claimed: every failed run has rejected and has sent a q-error event,
\* whatever the state of the sink.
C21_FailureReportedAnySink ==
  \A r \in Runs : Failed(r) =>
    /\ result[r].state = "rejected"
    /\ \E i \in 1..Len(events[r]) : events[r][i].type = "q-error"

\* C21 amended: every failed run has rejected, whatever the sink; with the sink open
\* a failed launch has sent its launch-error event, and a closed run has sent
\* q-complete with its exit code, which is how a non-zero exit is reported.
C21_FailureReported ==
  \A r \in Runs : Failed(r) =>
    /\ result[r].state = "rejected"
    /\ SinkOpen(ws[r]) =>
         /\ launchError[r] => Count(events[r], IsLaunchError) >= 1
         /\ pc[r] = "closed" =>
              /\ IsComplete(events[r][Len(events[r])])
              /\ events[r][Len(events[r])].exitCode = exitCode[r]
              /\ exitCode[r] # Code(0)

C21_Witness ==
  \E r \in Runs : /\ launchError[r] /\ SinkOpen(ws[r]) /\ result[r] = LaunchFailure
                  /\ IsLaunchError(events[r][Len(events[r])])

\* C22: the result of a closed run is the one its exit code or launch failure gives,
\* whether the removal of its staging directory is pending, done or failed, and the
\* step that settles the removal changes no result, event, registry entry or position.
C22_CleanupNeverChangesOutcome ==
  /\ [](\A r \in Runs : pc[r] = "closed" =>
          /\ result[r] = IF launchError[r] THEN LaunchFailure
                          ELSE CloseResult(exitCode[r], outputBuffer[r], errorBuffer[r],
                                           sessionId[r])
          /\ ~Holds(r))
  /\ [][(\E r \in Runs : cleanup'[r] # cleanup[r] /\ cleanup'[r] \in {"done", "failed"}) =>
          UNCHANGED <<result, events, activeQProcesses, pc, exitCode>>]_vars

C22_Witness ==
  \E r \in Runs : /\ pc[r] = "closed" /\ cleanup[r] = "failed" /\ tempDir[r] \in dirs
                  /\ result[r].state = "fulfilled" /\ events[r] # <<>>
                  /\ IsComplete(events[r][Len(events[r])])

EntryOf(reg, k) == IF k \in DOMAIN reg THEN reg[k] ELSE 0

\* C24: the registry entry of a session id changes only in a step of a run of that
\* id or in an abort of that id, and no event of a run carries the id of another
\* session.
C24_DistinctSessionsIndependent ==
  /\ [][\A k \in SessionIds :
          EntryOf(activeQProcesses', k) # EntryOf(activeQProcesses, k) =>
            \/ abortCall'.called /\ abortCall'.sid = k
            \/ \E r \in Runs : sessionId'[r] = k /\ pc'[r] # pc[r]]_vars
  /\ [](\A r \in Runs : \A i \in 1..Len(events[r]) :
          events[r][i].sessionId \in SessionIds => events[r][i].sessionId = sessionId[r])

C24_Witness ==
  \E r1, r2 \in Runs :
    /\ sessionId[r1] = "s1" /\ sessionId[r2] = "s2"
    /\ pc[r1] = "closed" /\ Aborted(r1) /\ Len(events[r1]) >= 2
    /\ pc[r2] = "running" /\ EntryOf(activeQProcesses, "s2") = r2 /\ Len(events[r2]) >= 2

\* C26: a live, unaborted run of session s that is the latest run of s, every earlier
\* run of s having been aborted, has its handle in the registry under s: the end of
\* an aborted process does not take the entry of the run that followed it.
C26_OldExitKeepsNewEntry ==
  \A r \in Runs :
    (/\ sessionId[r] # NoSid /\ pc[r] = "running" /\ ~Aborted(r)
     /\ \A q \in Runs \ {r} :
          (sessionId[q] = sessionId[r] /\ pc[q] # "idle") => (q < r /\ Aborted(q)))
    => EntryOf(activeQProcesses, sessionId[r]) = r

\* C27: a live, unaborted process whose run has announced a session id is in the
\* registry under that id.
C27_AnnouncedIdCancels ==
  \A r \in Runs :
    (pc[r] = "running" /\ ~Aborted(r) /\ events[r] # <<>> /\ IsCreated(events[r][1])) =>
      EntryOf(activeQProcesses, events[r][1].sessionId) = r

\* C28: a server whose add was answered with success is in the stored configuration
\* for as long as no request removes that name, whatever requests for other names
\* were under way at the same time.
C28_NoLostMcpUpdate ==
  \A q \in Reqs :
    (/\ req[q].op = "add" /\ req[q].pc = "done" /\ req[q].status = 200
     /\ \A o \in Reqs : (req[o].op = "remove" /\ req[o].pc # "idle") =>
          req[o].name # req[q].name)
    => req[q].name \in DOMAIN mcpFile


\* C25: once renameProject(name, newName) has succeeded, every getProjects result computed
\* afterwards reports newName as the display name of each project called name.
C25_RenameShowsInListing ==
  [][listing' # listing =>
       \A p \in listing' :
          p.name \in DOMAIN projectConfig.projectDisplayNames =>
            p.displayName = projectConfig.projectDisplayNames[p.name]]_vars

\* C29: for every session whose addMessageToSession calls have all returned, the stored
\* messageCount equals the length of the message log and every added message is in the
\* log exactly once.
CallsFor(id) == {c \in Calls : addCall[c].pc # "idle" /\ addCall[c].sid = id}
Occurrences(log, m) == Cardinality({k \in 1..Len(log) : log[k] = m})
C29_CountMatchesLog ==
  \A id \in DOMAIN sessionMeta :
     (\A c \in CallsFor(id) : addCall[c].pc = "returned") =>
        /\ sessionMeta[id].messageCount = Len(GetSessionMessages(id))
        /\ \A c \in CallsFor(id) : Occurrences(GetSessionMessages(id), addCall[c].msg) = 1

\* C30: getProjects lists a session only under the project whose fullPath is the path the
\* session was created for, and a deletion removes no session created for a project other
\* than the one deleted or the one owning the deleted session.
DeletedSessions == DOMAIN sessionMeta \ DOMAIN sessionMeta'
C30_SessionsIsolatedPerProject ==
  /\ [](\A p \in listing : \A s \in p.sessions : s.projectPath = p.fullPath)
  /\ [][\A id \in DeletedSessions, o \in DeletedSessions :
          sessionMeta[id].projectPath = sessionMeta[o].projectPath]_vars

====
